---- MODULE Spec2Model ----
(***************************************************************************)
(* tree-sitter-sexp: the Sexp tree model, the tree builder                 *)
(* (Sexp::of_str / Sexp::build_tree), the size estimator (Sexp::size) and  *)
(* the layout engine (PrettyPrinter::pp, impl Display for Sexp) of         *)
(* src/src/lib.rs.                                                         *)
(*                                                                         *)
(* Text is a sequence of tokens.  An atom is one token carrying its text   *)
(* (a string, atom.len() is Len), "(" and ")" are one token each, a        *)
(* newline is one token and a run of n spaces is one token of width n.     *)
(***************************************************************************)
EXTENDS Integers, Sequences, FiniteSets, TLC

\* ------------------------------------------------------------------ bounds
\* nodes of the concrete syntax tree handed to build_tree (Spec)
MaxNodes == 4
\* atoms and lists of the well-formed Sexp handed to the printer (SpecW)
MaxItems == 6
\* render calls of a session (SpecCalls)
MaxCalls == 3

RECURSIVE Rep(_, _)
Rep(s, n) == IF n = 0 THEN "" ELSE s \o Rep(s, n - 1)

\* atom texts: a short one and one as long as the default max_width
LongAtom == Rep("y", 150)
AtomTexts == {"x", LongAtom}
\* atom texts, printer widths and indents of the width-parametrised runs
ShortTexts == {"x", "yyyy"}
Widths == {7, 9, 10}
Indents == {1, 2}

VARIABLES
    overflow_checks, \* build profile: TRUE = debug (overflow panics), FALSE = release (wraps)
    node,            \* concrete syntax node given to build_tree
    built,           \* Result<Sexp, Error> of build_tree / of_str
    sexp,            \* the Sexp being rendered
    printer,         \* the PrettyPrinter the render call runs on
    res,             \* result of the latest render call
    first,           \* the Sexp and the result of the first render call
    calls,           \* render calls made so far
    pc

vars == <<overflow_checks, node, built, sexp, printer, res, first, calls, pc>>

\* ------------------------------------------------------------- enum Sexp
Atom(s) == [tag |-> "Atom", text |-> s, parts |-> <<>>]
List(ps) == [tag |-> "List", text |-> "", parts |-> ps]
Nil == [tag |-> "Nil", text |-> "", parts |-> <<>>]

\* Sexp::size
RECURSIVE size(_)
RECURSIVE size_parts(_, _)
size_parts(parts, i) ==
    IF i > Len(parts) THEN 0 ELSE size(parts[i]) + size_parts(parts, i + 1)
size(e) ==
    CASE e.tag = "Nil" -> 0
      [] e.tag = "Atom" -> Len(e.text)
      [] OTHER -> size_parts(e.parts, 1)

\* ------------------------------------------------------------ text sink
Tok(k, s, n) == [k |-> k, text |-> s, n |-> n]
LParen == Tok("(", "", 1)
RParen == Tok(")", "", 1)
Newline == Tok("newline", "", 0)
Spaces(n) == Tok("space", "", n)
AtomTok(s) == Tok("atom", s, Len(s))

\* ------------------------------------------------------- PrettyPrinter
\* PrettyPrinter::new
new == [max_width |-> 150, current_width |-> 0, indent_size |-> 1, current_depth |-> 0]

\* the struct with its two configuration fields set
Printer(mw, ind) == [new EXCEPT !.max_width = mw, !.indent_size = ind]

\* A u32 is held as the integer with the same 32 bits in two's complement:
\* u below 2^31 is u itself, u from 2^31 up is u - 2^32 (2^32 - 1 is -1).
\* Every value of the model lies within 2^20 of 0 or of 2^32, where + - *
\* on these integers are the wrapping u32 operations.
Big(v) == v < 0
u32_gt(a, b) == IF Big(a) = Big(b) THEN a > b ELSE Big(a)
add_overflows(a, b) == (Big(a) /\ Big(b)) \/ ((Big(a) \/ Big(b)) /\ a + b >= 0)
sub_overflows(a, b) == u32_gt(b, a)
mul_overflows(a, b) == (Big(a) /\ (Big(b) \/ b >= 2)) \/ (Big(b) /\ a >= 2)

\* PrettyPrinter::padding
padding(self) ==
    IF self.current_depth = 0 THEN 0
    ELSE (self.current_depth - 1) * self.indent_size
padding_overflows(self) ==
    self.current_depth # 0 /\ mul_overflows(self.current_depth - 1, self.indent_size)

\* state threaded through one render call: the printer, the printer as the
\* call found it, the sink, whether the call is still running (FALSE once it
\* panicked), and the line breaks made (the depth the list had right after
\* its increment, the spaces emitted after the newline)
Start(self) == [self |-> self, entry |-> self, fmt |-> <<>>, ok |-> TRUE, brk |-> <<>>]
\* an arithmetic overflow panics in a build with overflow checks (debug) and
\* wraps in one without (release)
Panic(r) == [r EXCEPT !.ok = FALSE]
write(r, tok) == [r EXCEPT !.fmt = Append(@, tok)]

\* the Atom arm counting the atom without writing it
ppAtom_unwritten(r, atom) ==
    IF overflow_checks /\ add_overflows(r.self.current_width, Len(atom)) THEN Panic(r)
    ELSE [r EXCEPT !.self.current_width = @ + Len(atom)]

\* pp, Sexp::Atom arm
ppAtom(r, atom) ==
    IF overflow_checks /\ add_overflows(r.self.current_width, Len(atom)) THEN Panic(r)
    ELSE write([r EXCEPT !.self.current_width = @ + Len(atom)], AtomTok(atom))

\* pp, Sexp::Nil arm
ppNil(r) ==
    IF overflow_checks /\ sub_overflows(r.self.current_depth, 1) THEN Panic(r)
    ELSE [r EXCEPT !.self.current_depth = @ - 1]

\* pp, Sexp::List(_) arm (the empty list)
ppEmpty(r) == write(write(r, LParen), RParen)

\* pp, current_width + padding() + sexp.size() and its like for a part
width_sum(w, pad, sz) == w + pad + sz
width_sum_overflows(w, pad, sz) == add_overflows(w, pad) \/ add_overflows(w + pad, sz)

\* the part test made against half the width, as the term test is
part_will_overflow_half(part_size, self) == u32_gt(part_size, self.max_width \div 2)

\* pp, term_overflows and part_will_overflow
term_overflows(next_term_width, self) == u32_gt(next_term_width, self.max_width \div 2)
part_will_overflow(part_size, self) == u32_gt(part_size, self.max_width)
\* pp, write!(fmt, " ") before a part that stays on the line
separator == Spaces(1)
\* pp, the spaces written after a newline
break_indent(self) == padding(self) + self.indent_size

RECURSIVE pp(_, _)
RECURSIVE ppRest(_, _, _, _, _)

\* pp, one iteration of `for p in parts[1..].iter()`
ppPart(r, p, next_term_width, d) ==
    IF p.tag = "Nil" THEN pp(r, p)
    ELSE
      LET pad == padding(r.self)
          part_size == width_sum(next_term_width, pad, size(p))
      IN
      IF overflow_checks
         /\ (padding_overflows(r.self) \/ width_sum_overflows(next_term_width, pad, size(p)))
      THEN Panic(r)
      ELSE IF part_will_overflow(part_size, r.self)
      THEN IF overflow_checks /\ add_overflows(pad, r.self.indent_size)
           THEN Panic(write(r, Newline))
           ELSE pp([write(write(r, Newline), Spaces(break_indent(r.self)))
                      EXCEPT !.brk = Append(@, [d |-> d, n |-> break_indent(r.self)])], p)
      ELSE pp(write(r, separator), p)

ppRest(r, parts, i, next_term_width, d) ==
    IF ~r.ok \/ i > Len(parts) THEN r
    ELSE ppRest(ppPart(r, parts[i], next_term_width, d), parts, i + 1, next_term_width, d)

\* pp, Sexp::List(parts) if parts.len() > 0 arm
ppList(r, e) ==
    IF overflow_checks /\ add_overflows(r.self.current_depth, 1) THEN Panic(r)
    ELSE
      LET r1 == [r EXCEPT !.self.current_depth = @ + 1]
          pad == padding(r1.self)
          next_term_width == width_sum(r1.self.current_width, pad, size(e))
      IN
      IF overflow_checks
         /\ (padding_overflows(r1.self)
             \/ width_sum_overflows(r1.self.current_width, pad, size(e)))
      THEN Panic(r1)
      ELSE
        LET r2 == IF term_overflows(next_term_width, r1.self)
                     /\ u32_gt(r1.self.current_depth, 1)
                  THEN [r1 EXCEPT !.self.current_width = pad]
                  ELSE r1
            r3 == pp(write(r2, LParen), e.parts[1])
            r4 == ppRest(r3, e.parts, 2, next_term_width, r1.self.current_depth)
        IN IF r4.ok THEN write(r4, RParen) ELSE r4

\* PrettyPrinter::pp
pp(r, e) ==
    IF ~r.ok THEN r
    ELSE CASE e.tag = "Atom" -> ppAtom(r, e.text)
           [] e.tag = "Nil" -> ppNil(r)
           [] e.tag = "List" /\ Len(e.parts) > 0 -> ppList(r, e)
           [] OTHER -> ppEmpty(r)

\* Display::fmt rendering on the printer the caller holds
fmt_on_held(e) == pp(Start(printer), e)

\* impl fmt::Display for Sexp
fmt(e) == pp(Start(new), e)

\* ------------------------------------------------- concrete syntax tree
\* tree_sitter::Node: kind(), utf8_text(), children in order
Node(kind, text, children) == [kind |-> kind, text |-> text, children |-> children]

Ok(v) == [ok |-> TRUE, val |-> v]
Err == [ok |-> FALSE, val |-> Nil]

\* the loop visiting the first child too
siblings_all(root) == root.children

\* build_tree: root.walk(), goto_first_child(), then
\* `while walker.goto_next_sibling()`: the nodes the loop body sees
siblings_after_first(root) == SubSeq(root.children, 2, Len(root.children))

RECURSIVE build_tree(_)
RECURSIVE build_children(_, _, _)

\* build_tree: the loop body, children.push(Sexp::build_tree(child, bytes)?)
build_children(nodes, i, children) ==
    IF i > Len(nodes) THEN [ok |-> TRUE, val |-> children]
    ELSE LET child == build_tree(nodes[i]) IN
         IF child.ok THEN build_children(nodes, i + 1, Append(children, child.val))
         ELSE [ok |-> FALSE, val |-> <<>>]

\* Sexp::build_tree
build_tree(root) ==
    CASE root.kind = "atom" -> Ok(Atom(root.text))
      [] root.kind \in {"list", "ERROR", "MISSING"} ->
           LET init == IF root.kind = "list" THEN <<>> ELSE <<Atom(root.kind)>>
               r == build_children(siblings_after_first(root), 1, init)
           IN IF r.ok THEN Ok(List(r.val)) ELSE Err
      [] root.kind = ")" -> Ok(Nil)
      [] OTHER -> Err

\* ----------------------------------------------------- external parser
\* the grammar of the generated parser: whitespace is skipped, adjacent
\* atom characters form one atom
RECURSIVE Lex(_, _, _)
Lex(text, i, acc) ==
    IF i > Len(text) THEN acc
    ELSE LET t == text[i] IN
         IF t.k \in {"space", "newline"} THEN Lex(text, i + 1, acc)
         ELSE IF t.k = "atom" /\ i > 1 /\ text[i - 1].k = "atom"
         THEN Lex(text, i + 1,
                  [acc EXCEPT ![Len(acc)] = AtomTok(acc[Len(acc)].text \o t.text)])
         ELSE Lex(text, i + 1, Append(acc, t))

RECURSIVE parse_items(_, _)
RECURSIVE parse_item(_, _)
\* items up to the next ")" or the end of the input
parse_items(toks, i) ==
    IF i > Len(toks) \/ toks[i].k = ")" THEN [ok |-> TRUE, nodes |-> <<>>, next |-> i]
    ELSE LET it == parse_item(toks, i) IN
         IF ~it.ok THEN [ok |-> FALSE, nodes |-> <<>>, next |-> i]
         ELSE LET rest == parse_items(toks, it.next) IN
              [ok |-> rest.ok, nodes |-> <<it.node>> \o rest.nodes, next |-> rest.next]

\* an atom, or "(" items ")" as a list node holding both delimiters
parse_item(toks, i) ==
    IF toks[i].k = "atom"
    THEN [ok |-> TRUE, node |-> Node("atom", toks[i].text, <<>>), next |-> i + 1]
    ELSE LET inner == parse_items(toks, i + 1) IN
         [ok |-> inner.ok /\ inner.next <= Len(toks),
          node |-> Node("list", "",
                        <<Node("(", "", <<>>)>> \o inner.nodes \o <<Node(")", "", <<>>)>>),
          next |-> inner.next + 1]

\* Parser::parse: the root wraps the input in one `sexp` node; input that is
\* not a sequence of balanced items comes back under an ERROR root holding
\* its tokens
parse(input) ==
    LET toks == Lex(input, 1, <<>>)
        r == parse_items(toks, 1)
    IN IF r.ok /\ r.next > Len(toks) THEN Node("sexp", "", r.nodes)
       ELSE Node("ERROR", "",
                 [i \in 1..Len(toks) |->
                    Node(IF toks[i].k = "atom" THEN "atom" ELSE toks[i].k,
                         toks[i].text, <<>>)])

\* Sexp::of_str: goto_first_child() leaves the walker on the root when the
\* root has no child
of_str(input) ==
    LET root == parse(input)
        top == IF Len(root.children) > 0 THEN root.children[1] ELSE root
    IN build_tree(top)

\* ------------------------------------------------------------- inputs
LeafKinds == {"(", ")"}
InnerKinds == {"list", "ERROR", "MISSING"}

\* concrete syntax trees of exactly n nodes
RECURSIVE Nodes(_)
RECURSIVE NodeForests(_)
Nodes(n) ==
    IF n = 1
    THEN {Node("atom", s, <<>>) : s \in AtomTexts}
         \cup {Node(k, "", <<>>) : k \in LeafKinds \cup InnerKinds}
    ELSE {Node(k, "", f) : k \in InnerKinds, f \in NodeForests(n - 1)}
NodeForests(m) ==
    IF m = 0 THEN {<<>>}
    ELSE UNION {{<<t>> \o f : t \in Nodes(k), f \in NodeForests(m - k)} : k \in 1..m}

\* Sexp values as built from well-formed input (every list ends with the Nil
\* of its ")" and holds no other Nil), of exactly n atoms and lists
RECURSIVE WellFormed(_)
RECURSIVE WellFormedForests(_)
WellFormed(n) ==
    IF n = 1 THEN {Atom(s) : s \in ShortTexts} \cup {List(<<Nil>>)}
    ELSE {List(Append(f, Nil)) : f \in WellFormedForests(n - 1)}
WellFormedForests(m) ==
    IF m = 0 THEN {<<>>}
    ELSE UNION {{<<t>> \o f : t \in WellFormed(k), f \in WellFormedForests(m - k)} : k \in 1..m}

Idle == Start(new)
NoFirst == [sexp |-> Nil, r |-> Idle]
NoNode == Node("sexp", "", <<>>)

\* ------------------------------------------- Spec: of_str, then to_string
\* the parser has produced `node`; build it, render it, parse and build the
\* rendered text, render again
Init ==
    /\ overflow_checks \in BOOLEAN
    /\ node \in UNION {Nodes(n) : n \in 1..MaxNodes}
    /\ built = Err
    /\ sexp = Nil
    /\ printer = new
    /\ res = Idle
    /\ first = NoFirst
    /\ calls = 0
    /\ pc = "parsed"

\* Sexp::build_tree(walker.node(), input.as_bytes())
Build ==
    /\ pc = "parsed"
    /\ built' = build_tree(node)
    /\ sexp' = built'.val
    /\ pc' = IF built'.ok THEN "built" ELSE "build_failed"
    /\ UNCHANGED <<overflow_checks, node, printer, res, first, calls>>

\* sexp.to_string()
to_string ==
    /\ pc = "built"
    /\ res' = fmt(sexp)
    /\ first' = [sexp |-> sexp, r |-> res']
    /\ calls' = calls + 1
    /\ pc' = IF res'.ok THEN "rendered" ELSE "panicked"
    /\ UNCHANGED <<overflow_checks, node, built, sexp, printer>>

\* Sexp::of_str(&text)
Reparse ==
    /\ pc = "rendered"
    /\ built' = of_str(res.fmt)
    /\ sexp' = built'.val
    /\ pc' = IF built'.ok THEN "reparsed" ELSE "reparse_failed"
    /\ UNCHANGED <<overflow_checks, node, printer, res, first, calls>>

\* to_string() of the reparsed Sexp
to_string_again ==
    /\ pc = "reparsed"
    /\ res' = fmt(sexp)
    /\ calls' = calls + 1
    /\ pc' = IF res'.ok THEN "done" ELSE "panicked_again"
    /\ UNCHANGED <<overflow_checks, node, built, sexp, printer, first>>

Next == Build \/ to_string \/ Reparse \/ to_string_again

Spec == Init /\ [][Next]_vars

\* ------------------------- SpecW: pp under a max_width and an indent_size
InitW ==
    /\ overflow_checks \in BOOLEAN
    /\ node = NoNode
    /\ sexp \in UNION {WellFormed(n) : n \in 1..MaxItems}
    /\ built = Ok(sexp)
    /\ printer = new
    /\ res = Idle
    /\ first = NoFirst
    /\ calls = 0
    /\ pc = "ready"

\* pp on a printer of the given max_width and indent_size
Format(mw, ind) ==
    /\ pc = "ready"
    /\ printer' = Printer(mw, ind)
    /\ res' = pp(Start(printer'), sexp)
    /\ first' = [sexp |-> sexp, r |-> res']
    /\ calls' = calls + 1
    /\ pc' = IF res'.ok THEN "formatted" ELSE "panicked"
    /\ UNCHANGED <<overflow_checks, node, built, sexp>>

\* pp of the same Sexp on a printer at least as wide
FormatWider(mw) ==
    /\ pc = "formatted"
    /\ mw >= printer.max_width
    /\ printer' = Printer(mw, printer.indent_size)
    /\ res' = pp(Start(printer'), sexp)
    /\ calls' = calls + 1
    /\ pc' = IF res'.ok THEN "compared" ELSE "panicked_again"
    /\ UNCHANGED <<overflow_checks, node, built, sexp, first>>

NextW ==
    \/ \E mw \in Widths, ind \in Indents : Format(mw, ind)
    \/ \E mw \in Widths : FormatWider(mw)

SpecW == InitW /\ [][NextW]_vars

\* ------------------------------- SpecCalls: a session of render calls
InitC ==
    /\ overflow_checks \in BOOLEAN
    /\ node = NoNode
    /\ built = Err
    /\ sexp = Nil
    /\ printer = new
    /\ res = Idle
    /\ first = NoFirst
    /\ calls = 0
    /\ pc = "idle"

\* the Sexp values a session renders
CallSexps ==
    {Atom("x"), Atom(LongAtom), Nil, List(<<>>), List(<<Atom("x")>>),
     List(<<Atom("x"), Atom("x")>>), List(<<Atom("x"), Atom("x"), Nil>>)}

Remember(e, r) == IF calls = 0 THEN [sexp |-> e, r |-> r] ELSE first

\* e.to_string(): Display::fmt on a printer of its own
ToStringCall(e) ==
    /\ pc \in {"idle", "to_string", "pp"}
    /\ calls < MaxCalls
    /\ sexp' = e
    /\ res' = fmt(e)
    /\ first' = Remember(e, res')
    /\ calls' = calls + 1
    /\ pc' = IF res'.ok THEN "to_string" ELSE "panicked"
    /\ UNCHANGED <<overflow_checks, node, built, printer>>

\* printer.pp(&e, f) on the printer the caller holds
PpCall(e) ==
    /\ pc \in {"idle", "to_string", "pp"}
    /\ calls < MaxCalls
    /\ sexp' = e
    /\ res' = pp(Start(printer), e)
    /\ printer' = res'.self
    /\ first' = Remember(e, res')
    /\ calls' = calls + 1
    /\ pc' = IF res'.ok THEN "pp" ELSE "panicked"
    /\ UNCHANGED <<overflow_checks, node, built>>

NextC ==
    \/ \E e \in CallSexps : ToStringCall(e)
    \/ \E e \in CallSexps : PpCall(e)

SpecCalls == InitC /\ [][NextC]_vars

\* --------------------------------------------------- measures of a Sexp
\* texts of the Atom leaves, depth first, left to right
RECURSIVE Leaves(_)
RECURSIVE LeavesOf(_, _)
LeavesOf(parts, i) ==
    IF i > Len(parts) THEN <<>> ELSE Leaves(parts[i]) \o LeavesOf(parts, i + 1)
Leaves(e) ==
    CASE e.tag = "Atom" -> <<e.text>>
      [] e.tag = "Nil" -> <<>>
      [] OTHER -> LeavesOf(e.parts, 1)

\* List nodes, and parts written after a space or a line break (every part
\* but the first of its list that is not Nil)
RECURSIVE Lists(_)
RECURSIVE ListsOf(_, _)
ListsOf(parts, i) ==
    IF i > Len(parts) THEN 0 ELSE Lists(parts[i]) + ListsOf(parts, i + 1)
Lists(e) == IF e.tag = "List" THEN 1 + ListsOf(e.parts, 1) ELSE 0

RECURSIVE Separated(_)
RECURSIVE SeparatedOf(_, _)
SeparatedOf(parts, i) ==
    IF i > Len(parts) THEN 0
    ELSE (IF i > 1 /\ parts[i].tag # "Nil" THEN 1 ELSE 0)
         + Separated(parts[i]) + SeparatedOf(parts, i + 1)
Separated(e) == IF e.tag = "List" THEN SeparatedOf(e.parts, 1) ELSE 0

\* maximum list nesting depth
RECURSIVE Depth(_)
RECURSIVE DepthOf(_, _)
DepthOf(parts, i) ==
    IF i > Len(parts) THEN 0
    ELSE LET a == Depth(parts[i])
             b == DepthOf(parts, i + 1)
         IN IF a > b THEN a ELSE b
Depth(e) == IF e.tag = "List" THEN 1 + DepthOf(e.parts, 1) ELSE 0

\* every List's last child is its only Nil child
RECURSIVE IsWellFormed(_)
IsWellFormed(e) ==
    e.tag = "List" =>
      /\ Len(e.parts) > 0
      /\ \A i \in 1..Len(e.parts) :
           /\ (e.parts[i].tag = "Nil") = (i = Len(e.parts))
           /\ IsWellFormed(e.parts[i])

\* the one-line form: "(" the non-Nil children one space apart ")"
RECURSIVE Flat(_)
RECURSIVE FlatOf(_, _, _)
FlatOf(parts, i, started) ==
    IF i > Len(parts) THEN <<>>
    ELSE IF parts[i].tag = "Nil" THEN FlatOf(parts, i + 1, started)
    ELSE (IF started THEN <<Spaces(1)>> ELSE <<>>) \o Flat(parts[i])
         \o FlatOf(parts, i + 1, TRUE)
Flat(e) ==
    CASE e.tag = "Atom" -> <<AtomTok(e.text)>>
      [] e.tag = "Nil" -> <<>>
      [] OTHER -> <<LParen>> \o FlatOf(e.parts, 1, FALSE) \o <<RParen>>

\* ----------------------------------------------------- measures of text
IsAtomTok(t) == t.k = "atom"
AtomTexts_of(text) ==
    LET toks == SelectSeq(text, IsAtomTok) IN [i \in 1..Len(toks) |-> toks[i].text]
IsPrefix(a, b) == Len(a) <= Len(b) /\ SubSeq(b, 1, Len(a)) = a
Newlines(text) == Cardinality({i \in 1..Len(text) : text[i].k = "newline"})

\* some line of the text is longer than mw; w is the length of the line so far
RECURSIVE SomeLineOver(_, _, _, _)
SomeLineOver(text, i, w, mw) ==
    IF i > Len(text) THEN w > mw
    ELSE IF text[i].k = "newline" THEN w > mw \/ SomeLineOver(text, i + 1, 0, mw)
    ELSE IF Big(text[i].n) THEN TRUE
    ELSE SomeLineOver(text, i + 1, w + text[i].n, mw)

\* a child of node and the element of the built List that stands for it
Corresponds(child, e) ==
    CASE child.kind = "atom" -> e = Atom(child.text)
      [] child.kind = ")" -> e = Nil
      [] child.kind \in InnerKinds -> e.tag = "List"
      [] OTHER -> FALSE

Rendered == pc \in {"rendered", "done"}

\* ---------------------------------------------------------------- claims
\* C1: rendering is total: pp started from a fresh printer completes with Ok
\* for every Sexp, Nil at the top level and several Nil in one list included;
\* no u32 operation on current_depth or current_width fails.
C1_PpTotal == calls > 0 => res.ok

\* C2: when no atom is longer than max_width, every line of the rendered
\* text (indentation, parentheses and separating spaces counted) is at most
\* max_width long.
C2_LinesWithinMaxWidth ==
    (Rendered /\ \A i \in 1..Len(Leaves(sexp)) : Len(Leaves(sexp)[i]) <= res.self.max_width)
        => ~SomeLineOver(res.fmt, 1, 0, res.self.max_width)

\* C3: width monotonicity: rendering the same Sexp with the same indent_size
\* under a max_width at least as large gives no more newlines.
C3_WidthMonotone ==
    pc = "compared" => Newlines(res.fmt) <= Newlines(first.r.fmt)

\* C4: round trip: rendering a built Sexp, parsing and building the text and
\* rendering the result gives the first text again.
C4_RoundTrip == pc = "done" => res.fmt = first.r.fmt

\* C5: atom fidelity and order: the atoms of the rendered text are the texts
\* of the Atom leaves, depth first and left to right, each once and
\* unchanged; everything else is the "(" and ")" of the lists and one space
\* or one line break before each part that is neither first nor Nil, so Nil
\* contributes nothing.  What a call that panics has written holds the
\* first of the leaves, in order and unchanged.
C5_AtomFidelity ==
    /\ calls > 0 => IsPrefix(AtomTexts_of(res.fmt), Leaves(sexp))
    /\ Rendered =>
         /\ AtomTexts_of(res.fmt) = Leaves(sexp)
         /\ Len(res.fmt) = Len(Leaves(sexp)) + 2 * Lists(sexp) + Separated(sexp)
                             + Newlines(res.fmt)
         /\ Newlines(res.fmt) = Len(res.brk)
C5_Witness ==
    /\ pc = "rendered"
    /\ Len(Leaves(sexp)) >= 2
    /\ Len(res.brk) > 0

\* C6: for a node of kind ERROR or MISSING, build_tree returns a List of an
\* Atom with the kind name followed by one element for every child of the
\* node, first through last, in order.
C6_ErrorChildrenAll ==
    (pc = "built" /\ node.kind \in {"ERROR", "MISSING"}) =>
      /\ sexp.tag = "List"
      /\ Len(sexp.parts) = 1 + Len(node.children)
      /\ sexp.parts[1] = Atom(node.kind)
      /\ \A i \in 1..Len(node.children) : Corresponds(node.children[i], sexp.parts[i + 1])

\* a list node between its "(" and its ")"
Delimited(n) ==
    /\ Len(n.children) >= 2
    /\ n.children[1].kind = "("
    /\ n.children[Len(n.children)].kind = ")"

C8_BreakIndent ==
    calls > 0 =>
      \A i \in 1..Len(res.brk) :
        res.brk[i].n = (res.brk[i].d - 1) * res.self.indent_size + res.self.indent_size

\* the latest call found both counters at 0 and gave for the Sexp of the
\* session's first call the text that call gave
StartsFresh ==
    /\ res.entry.current_width = 0
    /\ res.entry.current_depth = 0
    /\ sexp = first.sexp => res.fmt = first.r.fmt

\* C9 as stated: every render call, to_string or pp on a held printer,
\* starts with current_width = 0 and current_depth = 0 and gives for a Sexp
\* the text the first call of the session gave for it.
C9_EveryCallFresh == pc \in {"to_string", "pp"} => StartsFresh

\* C9 amended: every to_string (Display::fmt) call starts with
\* current_width = 0 and current_depth = 0 and gives for a Sexp the text the
\* first call of the session gave for it, whatever was rendered in between.
C9_ToStringFresh == pc = "to_string" => StartsFresh
C9_Witness ==
    /\ pc = "to_string"
    /\ calls >= 2
    /\ printer # new
    /\ sexp = first.sexp
    /\ Len(res.fmt) > 2

\* 2*S + 3*(D-1)*indent_size <= max_width
Small == 2 * size(sexp) + 3 * (Depth(sexp) - 1) * printer.indent_size <= printer.max_width

\* C10: a Sexp of the well-formed shape with 2*S + 3*(D-1)*indent_size <=
\* max_width (S its size, D its list nesting depth) renders without a
\* newline, each list as "(" its non-Nil children one space apart ")".
C10_SmallOnOneLine ==
    (calls > 0 /\ IsWellFormed(sexp) /\ Small) =>
      /\ res.ok
      /\ Newlines(res.fmt) = 0
      /\ res.fmt = Flat(sexp)
C10_Witness ==
    /\ pc = "formatted"
    /\ IsWellFormed(sexp)
    /\ Small
    /\ Depth(sexp) >= 2
    /\ Separated(sexp) >= 2

====
